---- MODULE Spec2Model ----
(***************************************************************************)
(* Campus occupancy dashboard backend (backend/main.py): the tiered        *)
(* building search (find_building_match / search_building), the sensor-    *)
(* code -> display-code bridge built in lifespan, and the occupancy join   *)
(* of get_occupancy.                                                       *)
(*                                                                         *)
(* Python strings are sequences of one-character strings.  A similarity    *)
(* score is an exact rational <<numerator, denominator>>; the program      *)
(* holds it as a double, whose rounding is not modelled.                   *)
(***************************************************************************)
EXTENDS Integers, Sequences, FiniteSets, TLC

VARIABLES
    db_campus,   \* db["campus"]: [loaded, rows]; loaded = FALSE is Python's None
    db_data,     \* db["data"]:   [loaded, rows]; loaded = FALSE is Python's None
    id_bridge,   \* the module-level dict id_bridge: clean id -> list of real ids
    phase,       \* "down" before startup and after shutdown, "serving" in between
    starts,      \* how many times lifespan has been entered
    req,         \* the last request served
    match,       \* what find_building_match returned for it (search only)
    resp         \* the response (or error) the endpoint produced

vars == <<db_campus, db_data, id_bridge, phase, starts, req, match, resp>>

(***************************************************************************)
(* Bounds of the model.                                                    *)
(***************************************************************************)
MaxRecords == 4

MaxStartups == 2

(***************************************************************************)
(* Characters and the str methods the program calls.                       *)
(***************************************************************************)
UpperChars ==
    <<"A","B","C","D","E","F","G","H","I","J","K","L","M",
      "N","O","P","Q","R","S","T","U","V","W","X","Y","Z">>

LowerChars ==
    <<"a","b","c","d","e","f","g","h","i","j","k","l","m",
      "n","o","p","q","r","s","t","u","v","w","x","y","z">>

DigitChars ==
    <<"0","1","2","3","4","5","6","7","8","9">>

Whitespace == {" "}

Max(a, b) == IF a >= b THEN a ELSE b

Min(a, b) == IF a <= b THEN a ELSE b

SetMin(S) == CHOOSE x \in S : \A y \in S : x <= y

IsDigitCh(c) == c \in {DigitChars[i] : i \in 1..10}

DigitValue(c) == (CHOOSE i \in 1..10 : DigitChars[i] = c) - 1

LowerOf == [c \in {UpperChars[i] : i \in 1..26} |->
               LowerChars[CHOOSE i \in 1..26 : UpperChars[i] = c]]

UpperOf == [c \in {LowerChars[i] : i \in 1..26} |->
               UpperChars[CHOOSE i \in 1..26 : LowerChars[i] = c]]

LowerCh(c) == IF c \in DOMAIN LowerOf THEN LowerOf[c] ELSE c

UpperCh(c) == IF c \in DOMAIN UpperOf THEN UpperOf[c] ELSE c

RECURSIVE str_lower(_)
str_lower(s) ==
    IF s = << >> THEN << >> ELSE <<LowerCh(Head(s))>> \o str_lower(Tail(s))

RECURSIVE str_upper(_)
str_upper(s) ==
    IF s = << >> THEN << >> ELSE <<UpperCh(Head(s))>> \o str_upper(Tail(s))

RECURSIVE str_lstrip(_, _)
str_lstrip(s, chars) ==
    IF Len(s) > 0 /\ s[1] \in chars THEN str_lstrip(Tail(s), chars) ELSE s

RECURSIVE str_rstrip(_, _)
str_rstrip(s, chars) ==
    IF Len(s) > 0 /\ s[Len(s)] \in chars
    THEN str_rstrip(SubSeq(s, 1, Len(s) - 1), chars)
    ELSE s

str_strip(s) == str_rstrip(str_lstrip(s, Whitespace), Whitespace)

str_isdigit(s) == Len(s) > 0 /\ \A i \in 1..Len(s) : IsDigitCh(s[i])

str_zfill(s, width) ==
    IF Len(s) >= width THEN s
    ELSE [i \in 1..(width - Len(s)) |-> "0"] \o s

\* needle in hay
str_in(needle, hay) ==
    \E k \in 0..(Len(hay) - Len(needle)) :
        SubSeq(hay, k + 1, k + Len(needle)) = needle

\* Series.str.contains(pat, case=False, regex=False): pat.upper() in x.upper()
str_contains_nocase(x, pat) == str_in(str_upper(pat), str_upper(x))

\* df[mask]: the positions in S, the rows that pass, in row order
RECURSIVE Ascending(_)
Ascending(S) ==
    IF S = {} THEN << >>
    ELSE LET m == SetMin(S) IN <<m>> \o Ascending(S \ {m})

(***************************************************************************)
(* Column names and the colloquialism table.                               *)
(***************************************************************************)
NAME_COL == "BLDG_NAME"

CODE_COL == "BLDG_CODE"

k_culc ==
    <<"c","u","l","c">>
k_clough ==
    <<"c","l","o","u","g","h">>
k_crc ==
    <<"c","r","c">>
k_mrdc ==
    <<"m","r","d","c">>
k_coc ==
    <<"c","o","c">>
k_klaus ==
    <<"k","l","a","u","s">>
k_scheller ==
    <<"s","c","h","e","l","l","e","r">>
k_student_center ==
    <<"s","t","u","d","e","n","t"," ","c","e","n","t","e","r">>
k_library ==
    <<"l","i","b","r","a","r","y">>
k_price ==
    <<"p","r","i","c","e">>
k_pg ==
    <<"p","g">>
t_Clough ==
    <<"C","l","o","u","g","h"," ","B","u","i","l","d","i","n","g">>
t_CRC ==
    <<"C","a","m","p","u","s"," ","R","e","c","r","e","a","t","i","o","n"," ",
     "C","e","n","t","e","r">>
t_MRDC ==
    <<"M","a","n","u","f","a","c","t","u","r","i","n","g"," ","R","e","l","a",
     "t","e","d"," ","D","i","s","c","i","p","l","i","n","e","s"," ","C","o",
     "m","p","l","e","x">>
t_CoC ==
    <<"C","o","l","l","e","g","e"," ","o","f"," ","C","o","m","p","u","t","i",
     "n","g">>
t_Klaus ==
    <<"K","l","a","u","s"," ","A","d","v","a","n","c","e","d"," ","C","o","m",
     "p","u","t","i","n","g"," ","B","u","i","l","d","i","n","g">>
t_Management ==
    <<"M","a","n","a","g","e","m","e","n","t"," ","B","u","i","l","d","i","n","g">>
t_StudentCenter ==
    <<"J","o","h","n"," ","L","e","w","i","s"," ","S","t","u","d","e","n","t",
     " ","C","e","n","t","e","r">>
t_Library ==
    <<"G","i","l","b","e","r","t"," ","M","e","m","o","r","i","a","l"," ","L",
     "i","b","r","a","r","y">>

\* key -> official name fragment
CUSTOM_ALIASES ==
    (k_culc :> t_Clough) @@ (k_clough :> t_Clough) @@ (k_crc :> t_CRC) @@
    (k_mrdc :> t_MRDC) @@ (k_coc :> t_CoC) @@ (k_klaus :> t_Klaus) @@
    (k_scheller :> t_Management) @@ (k_student_center :> t_StudentCenter) @@
    (k_library :> t_Library) @@ (k_price :> t_Library) @@ (k_pg :> t_Library)

(***************************************************************************)
(* jellyfish.jaro_winkler_similarity, as find_building_match calls it      *)
(* (no long-string tolerance).  Positions are 1-based here.                *)
(***************************************************************************)
Geq(a, b) == a[1] * b[2] >= b[1] * a[2]

Gt(a, b) == a[1] * b[2] > b[1] * a[2]

RatEq(a, b) == a[1] * b[2] = b[1] * a[2]

search_range(l1, l2) == Max(0, (Max(l1, l2) \div 2) - 1)

\* the flagged positions of s1 and s2 after s1[i..] has been scanned
RECURSIVE FlagMatches(_, _, _, _, _)
FlagMatches(s1, s2, i, s1_flags, s2_flags) ==
    IF i > Len(s1) THEN <<s1_flags, s2_flags>>
    ELSE LET sr == search_range(Len(s1), Len(s2))
             low == Max(1, i - sr)
             hi == Min(i + sr, Len(s2))
             free == {j \in low..hi : j \notin s2_flags /\ s2[j] = s1[i]}
         IN IF free = {}
            THEN FlagMatches(s1, s2, i + 1, s1_flags, s2_flags)
            ELSE FlagMatches(s1, s2, i + 1, s1_flags \cup {i},
                             s2_flags \cup {SetMin(free)})

\* flagged characters compared in order; half the mismatches
Transpositions(s1, s2, s1_flags, s2_flags) ==
    LET a == Ascending(s1_flags)
        b == Ascending(s2_flags)
    IN Cardinality({k \in 1..Len(a) : s1[a[k]] # s2[b[k]]}) \div 2

\* agreeing leading characters, at most 4
CommonPrefix(s1, s2) ==
    LET j == Min(Min(Len(s1), Len(s2)), 4)
    IN Cardinality({k \in 1..j : \A x \in 1..k : s1[x] = s2[x]})

jaro_winkler_similarity(s1, s2) ==
    IF Len(s1) = 0 \/ Len(s2) = 0 THEN <<0, 1>>
    ELSE LET flags == FlagMatches(s1, s2, 1, {}, {})
             common_chars == Cardinality(flags[1])
         IN IF common_chars = 0 THEN <<0, 1>>
            ELSE LET l1 == Len(s1)
                     l2 == Len(s2)
                     trans_count == Transpositions(s1, s2, flags[1], flags[2])
                     \* (c/l1 + c/l2 + (c - t)/c) / 3
                     wn == common_chars * common_chars * l2
                           + common_chars * common_chars * l1
                           + (common_chars - trans_count) * l1 * l2
                     wd == 3 * l1 * l2 * common_chars
                     i == CommonPrefix(s1, s2)
                 IN IF 10 * wn > 7 * wd
                    THEN <<10 * wn + i * (wd - wn), 10 * wd>>
                    ELSE <<wn, wd>>

(***************************************************************************)
(* find_building_match.  A result is the match type with the positions of  *)
(* the returned rows in df; "IndexError" is the exception iloc[0] raises   *)
(* on an empty frame.  The operators return the set of results the call    *)
(* can produce: sort_values uses an unstable sort, so rows of equal score  *)
(* may come out in any order.                                              *)
(***************************************************************************)
Exact(i) == [type |-> "exact", rows |-> <<i>>]

Suggestion(rows) == [type |-> "suggestion", rows |-> rows]

NoMatch == [type |-> "none", rows |-> << >>]

Raised(e) == [type |-> e, rows |-> << >>]

EXACT_THRESHOLD == <<90, 100>>

SUGGEST_THRESHOLD == <<60, 100>>

TOP_N == 3

MAX_CODE_DIGITS == 3

CODE_WIDTH == 3

QueryLower_CaseKept(query_str) == query_str

\* query_lower = query_str.lower()
QueryLower(query_str) == str_lower(query_str)

\* the rows whose name contains the alias's target, empty without an alias
alias_match(query_lower, df) ==
    IF query_lower \in DOMAIN CUSTOM_ALIASES
    THEN LET target_name == CUSTOM_ALIASES[query_lower]
         IN Ascending({i \in 1..Len(df) : str_contains_nocase(df[i][NAME_COL], target_name)})
    ELSE << >>

\* the lambda of df[NAME_COL].apply
match_score(query_lower, x) == jaro_winkler_similarity(query_lower, str_lower(x))

\* df['match_score'] = df[NAME_COL].astype(str).apply(...)
RECURSIVE MatchScores(_, _)
MatchScores(query_lower, df) ==
    IF df = << >> THEN << >>
    ELSE Append(MatchScores(query_lower, SubSeq(df, 1, Len(df) - 1)),
                match_score(query_lower, df[Len(df)][NAME_COL]))

\* sort_values(by='match_score', ascending=False): every descending order
sort_values_desc(score) ==
    LET n == Len(score)
    IN {p \in Permutations(1..n) :
            \A k \in 1..(n - 1) : Geq(score[p[k]], score[p[k + 1]])}

sort_values_asc(score) ==
    LET n == Len(score)
    IN {p \in Permutations(1..n) :
            \A k \in 1..(n - 1) : Geq(score[p[k + 1]], score[p[k]])}

head(rows, n) == SubSeq(rows, 1, Min(n, Len(rows)))

\* best_score > 0.90 in place of >=
FuzzyMatch_StrictExact(query_lower, df) ==
    IF Len(df) = 0 THEN {Raised("IndexError")}
    ELSE LET score == MatchScores(query_lower, df)
         IN {LET best_match == sorted_matches[1]
                 best_score == score[best_match]
             IN IF Gt(best_score, EXACT_THRESHOLD) THEN Exact(best_match)
                ELSE IF Geq(best_score, SUGGEST_THRESHOLD)
                     THEN Suggestion(head(sorted_matches, TOP_N))
                     ELSE NoMatch :
                sorted_matches \in sort_values_desc(score)}

\* suggestions from 0.50 up in place of 0.60
FuzzyMatch_LowSuggest(query_lower, df) ==
    IF Len(df) = 0 THEN {Raised("IndexError")}
    ELSE LET score == MatchScores(query_lower, df)
         IN {LET best_match == sorted_matches[1]
                 best_score == score[best_match]
             IN IF Geq(best_score, EXACT_THRESHOLD) THEN Exact(best_match)
                ELSE IF Geq(best_score, <<50, 100>>)
                     THEN Suggestion(head(sorted_matches, TOP_N))
                     ELSE NoMatch :
                sorted_matches \in sort_values_desc(score)}

\* sort_values left at its default, ascending
FuzzyMatch_Ascending(query_lower, df) ==
    IF Len(df) = 0 THEN {Raised("IndexError")}
    ELSE LET score == MatchScores(query_lower, df)
         IN {LET best_match == sorted_matches[1]
                 best_score == score[best_match]
             IN IF Geq(best_score, EXACT_THRESHOLD) THEN Exact(best_match)
                ELSE IF Geq(best_score, SUGGEST_THRESHOLD)
                     THEN Suggestion(head(sorted_matches, TOP_N))
                     ELSE NoMatch :
                sorted_matches \in sort_values_asc(score)}

\* 2c. Fuzzy Match: score every name, sort, threshold the best
FuzzyMatch(query_lower, df) ==
    IF Len(df) = 0 THEN {Raised("IndexError")}
    ELSE LET score == MatchScores(query_lower, df)
         IN {LET best_match == sorted_matches[1]
                 best_score == score[best_match]
             IN IF Geq(best_score, EXACT_THRESHOLD) THEN Exact(best_match)
                ELSE IF Geq(best_score, SUGGEST_THRESHOLD)
                     THEN Suggestion(head(sorted_matches, TOP_N))
                     ELSE NoMatch :
                sorted_matches \in sort_values_desc(score)}

exact_match(query_lower, df) ==
    Ascending({i \in 1..Len(df) : str_lower(df[i][NAME_COL]) = query_lower})

substring_matches(query_lower, df) ==
    Ascending({i \in 1..Len(df) : str_in(query_lower, str_lower(df[i][NAME_COL]))})

\* the last of the shortest names in place of the first
best_idx_LastShortest(df, matches) ==
    LET len == [k \in 1..Len(matches) |-> Len(df[matches[k]][NAME_COL])]
        k == CHOOSE k \in 1..Len(matches) :
                 /\ \A j \in 1..Len(matches) : len[k] <= len[j]
                 /\ \A j \in (k + 1)..Len(matches) : len[j] > len[k]
    IN matches[k]

\* substring_matches[NAME_COL].str.len().idxmin(): the first minimum
best_idx(df, matches) ==
    LET len == [k \in 1..Len(matches) |-> Len(df[matches[k]][NAME_COL])]
        k == CHOOSE k \in 1..Len(matches) :
                 /\ \A j \in 1..Len(matches) : len[k] <= len[j]
                 /\ \A j \in 1..(k - 1) : len[j] > len[k]
    IN matches[k]

\* 2. NAME MATCHING: exact, then substring, then fuzzy
NameMatching(query_lower, df) ==
    LET exact == exact_match(query_lower, df)
        substr == substring_matches(query_lower, df)
    IN IF exact # << >> THEN {Exact(exact[1])}
       ELSE IF substr # << >> THEN {Exact(best_idx(df, substr))}
       ELSE FuzzyMatch(query_lower, df)

\* a code that is not found goes on to the names
CodeMatching_FallsThrough(query_str, df) ==
    IF Len(query_str) > MAX_CODE_DIGITS THEN {NoMatch}
    ELSE LET padded_code == str_zfill(query_str, CODE_WIDTH)
             code_match == Ascending({i \in 1..Len(df) : df[i][CODE_COL] = padded_code})
         IN IF code_match # << >> THEN {Exact(code_match[1])}
            ELSE NameMatching(str_lower(query_str), df)

\* 1. CODE MATCHING (Digits)
CodeMatching(query_str, df) ==
    IF Len(query_str) > MAX_CODE_DIGITS THEN {NoMatch}
    ELSE LET padded_code == str_zfill(query_str, CODE_WIDTH)
             code_match == Ascending({i \in 1..Len(df) : df[i][CODE_COL] = padded_code})
         IN IF code_match # << >> THEN {Exact(code_match[1])}
            ELSE {NoMatch}

find_building_match(query, df) ==
    LET query_str == str_strip(query)
        query_lower == QueryLower(query_str)
        alias == alias_match(query_lower, df)
    IN IF alias # << >> THEN {Exact(alias[1])}
       ELSE IF str_isdigit(query_str) THEN CodeMatching(query_str, df)
       ELSE NameMatching(query_lower, df)

\* the body search_building sends for a result
SearchResponse(result, df) ==
    LET item(i) == [name |-> df[i][NAME_COL], code |-> df[i][CODE_COL]]
    IN CASE result.type = "exact" ->
                [status |-> 200, detail |-> "exact",
                 data |-> <<item(result.rows[1])>>]
         [] result.type = "suggestion" ->
                [status |-> 200, detail |-> "suggestions",
                 data |-> [k \in 1..Len(result.rows) |-> item(result.rows[k])]]
         [] result.type = "none" ->
                [status |-> 404, detail |-> "No building match found.",
                 data |-> << >>]
         [] OTHER ->
                [status |-> 500, detail |-> "Internal Server Error",
                 data |-> << >>]

(***************************************************************************)
(* lifespan: the parquet clean-up and the bridge.                          *)
(***************************************************************************)
BAD_DATE == "2025-04-13"

NotLoaded == [loaded |-> FALSE, rows |-> << >>]

Loaded(rows) == [loaded |-> TRUE, rows |-> rows]

EmptyBridge == [k \in {} |-> << >>]

\* str.replace(r'\.0$', '', regex=True)
strip_dot0(s) ==
    IF Len(s) >= 2 /\ s[Len(s) - 1] = "." /\ s[Len(s)] = "0"
    THEN SubSeq(s, 1, Len(s) - 2)
    ELSE s

\* the BLDG_CODE clean-up of the occupancy table
clean_parquet_code(s) == str_lstrip(strip_dot0(s), {"0"})

\* the table as lifespan stores it: codes cleaned, the bad date dropped
load_parquet(rows) ==
    LET cleaned == [i \in 1..Len(rows) |->
                        [rows[i] EXCEPT !.BLDG_CODE = clean_parquet_code(@)]]
    IN SelectSeq(cleaned, LAMBDA r : r.date_str # BAD_DATE)

\* re.search(r'(\d+)', real_id).group(1), << >> when there is no digit
first_digit_run(real_id) ==
    LET at == {i \in 1..Len(real_id) : IsDigitCh(real_id[i])}
    IN IF at = {} THEN << >>
       ELSE LET first == SetMin(at)
                last == CHOOSE e \in first..Len(real_id) :
                            /\ \A i \in first..e : IsDigitCh(real_id[i])
                            /\ (e = Len(real_id) \/ ~IsDigitCh(real_id[e + 1]))
            IN SubSeq(real_id, first, last)

has_digit(real_id) == \E i \in 1..Len(real_id) : IsDigitCh(real_id[i])

\* Series.unique(): first occurrences, in order
RECURSIVE unique(_)
unique(s) ==
    IF s = << >> THEN << >>
    ELSE LET rest == unique(SubSeq(s, 1, Len(s) - 1))
             x == s[Len(s)]
         IN IF \E i \in 1..Len(rest) : rest[i] = x THEN rest
            ELSE Append(rest, x)

\* one pass of the loop body over real_id
bridge_add(bridge, real_id) ==
    IF has_digit(real_id)
    THEN LET clean_id == str_lstrip(first_digit_run(real_id), {"0"})
         IN IF clean_id \in DOMAIN bridge
            THEN [bridge EXCEPT ![clean_id] = Append(@, real_id)]
            ELSE bridge @@ (clean_id :> <<real_id>>)
    ELSE bridge

\* for real_id in campus_gdf['BLDG_CODE'].unique(): ... , from the dict as it is
RECURSIVE bridge_loop(_, _)
bridge_loop(bridge, real_ids) ==
    IF real_ids = << >> THEN bridge
    ELSE bridge_loop(bridge_add(bridge, Head(real_ids)), Tail(real_ids))

build_bridge(bridge, features) ==
    bridge_loop(bridge, unique([i \in 1..Len(features) |-> features[i][CODE_COL]]))

(***************************************************************************)
(* get_occupancy.                                                          *)
(***************************************************************************)
s_nan ==
    <<"n","a","n">>
s_inf ==
    <<"i","n","f">>
s_infinity ==
    <<"i","n","f","i","n","i","t","y">>

\* int(digits)
RECURSIVE int_of(_)
int_of(s) ==
    IF s = << >> THEN 0
    ELSE 10 * int_of(SubSeq(s, 1, Len(s) - 1)) + DigitValue(s[Len(s)])

\* digits, optionally with one point, at least one digit in all
is_decimal_literal(s) ==
    LET points == {i \in 1..Len(s) : s[i] = "."}
    IN /\ Cardinality(points) <= 1
       /\ \A i \in 1..Len(s) : s[i] = "." \/ IsDigitCh(s[i])
       /\ \E i \in 1..Len(s) : IsDigitCh(s[i])

\* float(text): "ValueError", or the kind of float and its integer part
py_float(text) ==
    LET t == str_strip(text)
        signed == Len(t) > 0 /\ t[1] \in {"+", "-"}
        sign == IF Len(t) > 0 /\ t[1] = "-" THEN -1 ELSE 1
        body == IF signed THEN Tail(t) ELSE t
        low == str_lower(body)
    IN IF low = s_nan THEN [kind |-> "nan", trunc |-> 0]
       ELSE IF low \in {s_inf, s_infinity} THEN [kind |-> "inf", trunc |-> 0]
       ELSE IF is_decimal_literal(body)
            THEN LET points == {i \in 1..Len(body) : body[i] = "."}
                     whole == IF points = {} THEN body
                              ELSE SubSeq(body, 1, SetMin(points) - 1)
                 IN [kind |-> "finite", trunc |-> sign * int_of(whole)]
            ELSE [kind |-> "ValueError", trunc |-> 0]

\* int(float(text)): the exception raised, or "ok" with the value
int_float(text) ==
    LET f == py_float(text)
    IN CASE f.kind = "ValueError" -> [raised |-> "ValueError", value |-> 0]
         [] f.kind = "nan" -> [raised |-> "ValueError", value |-> 0]
         [] f.kind = "inf" -> [raised |-> "OverflowError", value |-> 0]
         [] OTHER -> [raised |-> "ok", value |-> f.trunc]

\* the count sent as count / len(real_ids)
fan_out_Split(bridge, row) ==
    LET data_id == row[CODE_COL]
        count == row.occupancy
    IN IF data_id \in DOMAIN bridge
       THEN LET real_ids == bridge[data_id]
            IN [k \in 1..Len(real_ids) |->
                    [code |-> real_ids[k], count |-> count \div Len(real_ids)]]
       ELSE <<[code |-> data_id, count |-> count]>>

\* what one row appends to result
fan_out(bridge, row) ==
    LET data_id == row[CODE_COL]
        count == row.occupancy
    IN IF data_id \in DOMAIN bridge
       THEN LET real_ids == bridge[data_id]
            IN [k \in 1..Len(real_ids) |->
                    [code |-> real_ids[k], count |-> count]]
       ELSE <<[code |-> data_id, count |-> count]>>

\* for _, row in subset.iterrows(): ...
RECURSIVE join_rows(_, _)
join_rows(bridge, subset) ==
    IF subset = << >> THEN << >>
    ELSE fan_out(bridge, Head(subset)) \o join_rows(bridge, Tail(subset))

Http(status, detail, data) == [status |-> status, detail |-> detail, data |-> data]

get_occupancy(date, hour, minute, data, bridge) ==
    LET h == int_float(hour)
        m == int_float(minute)
    IN IF h.raised = "ValueError" THEN Http(400, "Invalid format", << >>)
       ELSE IF h.raised = "OverflowError"
            THEN Http(500, "Internal Server Error", << >>)
       ELSE IF m.raised = "ValueError" THEN Http(400, "Invalid format", << >>)
       ELSE IF m.raised = "OverflowError"
            THEN Http(500, "Internal Server Error", << >>)
       ELSE IF ~data.loaded THEN Http(500, "Data not loaded", << >>)
       ELSE LET subset == SelectSeq(data.rows, LAMBDA r :
                              r.date_str = date /\ r.hour = h.value
                              /\ r.minute = m.value)
            IN Http(200, "ok", join_rows(bridge, subset))

(***************************************************************************)
(* The inputs the model draws from.                                        *)
(***************************************************************************)
n_GilbertMemorialLibrary ==
    <<"G","i","l","b","e","r","t"," ","M","e","m","o","r","i","a","l"," ","L",
     "i","b","r","a","r","y">>
n_Library ==
    <<"L","i","b","r","a","r","y">>
n_Digits1234 ==
    <<"1","2","3","4">>
n_SmithHall ==
    <<"S","m","i","t","h"," ","H","a","l","l">>
n_BrownHall ==
    <<"B","r","o","w","n"," ","H","a","l","l">>
n_Hall ==
    <<"H","a","l","l">>
n_HallTrailing ==
    <<"H","a","l","l"," ">>
c_077 ==
    <<"0","7","7">>
c_77 ==
    <<"7","7">>
c_Digits1234 ==
    <<"1","2","3","4">>
c_191N ==
    <<"1","9","1","N">>
c_191S ==
    <<"1","9","1","S">>
c_005 ==
    <<"0","0","5">>
c_ANNEX ==
    <<"A","N","N","E","X">>

Feature(name, code) == [BLDG_NAME |-> name, BLDG_CODE |-> code]

f_Gilbert == Feature(n_GilbertMemorialLibrary, c_077)

f_Library == Feature(n_Library, c_77)

f_Digits == Feature(n_Digits1234, c_Digits1234)

f_Smith == Feature(n_SmithHall, c_191N)

f_Brown == Feature(n_BrownHall, c_191S)

f_Hall == Feature(n_Hall, c_005)

f_Annex == Feature(n_HallTrailing, c_ANNEX)

RecordPool ==
    {f_Gilbert, f_Library, f_Digits, f_Smith, f_Brown, f_Hall, f_Annex}

\* the frames of up to MaxRecords distinct features, in every order
Dataframes ==
    UNION {{df \in [1..n -> RecordPool] :
                \A i, j \in 1..n : i # j => df[i] # df[j]} : n \in 0..MaxRecords}

q_7 ==
    <<"7">>
q_5 ==
    <<"5">>
q_12 ==
    <<"1","2">>
q_77sp ==
    <<" ","7","7"," ">>
q_culc ==
    <<"c","u","l","c">>
q_pg ==
    <<"p","g">>
q_PRICE ==
    <<"P","R","I","C","E">>
q_empty ==
    << >>
q_hal ==
    <<"h","a","l">>
q_Smith ==
    <<"S","m","i","t","h">>
q_Lib ==
    <<"L","i","b">>
q_Libary ==
    <<"L","i","b","a","r","y">>
q_Hale ==
    <<"H","a","l","e">>
q_Liba ==
    <<"L","i","b","a">>
q_Lobby ==
    <<"L","o","b","b","y">>
q_lab ==
    <<"l","a","b">>
q_zzz ==
    <<"z","z","z">>
q_SmythHall ==
    <<"S","m","y","t","h"," ","H","a","l","l">>

Casings(s) == {s, str_lower(s), str_upper(s)}

Queries ==
    UNION {Casings(f[NAME_COL]) : f \in RecordPool}
    \cup {c_77, c_077, q_7, q_5, q_12, q_77sp, q_culc, q_pg, q_PRICE, q_empty,
          q_hal, q_Smith, q_Lib, q_Libary, q_Liba, q_Hale, q_Lobby, q_lab, q_zzz,
          q_SmythHall}

p_191dot0 ==
    <<"1","9","1",".","0">>
p_077 ==
    <<"0","7","7">>
p_300 ==
    <<"3","0","0">>
h_9 ==
    <<"9">>
h_09 ==
    <<"0","9">>
h_9dot5 ==
    <<"9",".","5">>
h_abc ==
    <<"a","b","c">>
h_nan ==
    <<"n","a","n">>
h_inf ==
    <<"i","n","f">>
h_minf ==
    <<"-","I","n","f","i","n","i","t","y">>
h_sp9 ==
    <<" ","9"," ">>
m_0 ==
    <<"0">>
m_00dot0 ==
    <<"0","0",".","0">>
m_x ==
    <<"1","x">>

Obs(date, hour, minute, code, occupancy) ==
    [date_str |-> date, hour |-> hour, minute |-> minute, BLDG_CODE |-> code,
     occupancy |-> occupancy]

\* an occupancy table as read_parquet returns it
ParquetRows ==
    <<Obs("2025-04-12", 9, 0, p_191dot0, 50), Obs("2025-04-12", 9, 0, p_077, 7),
      Obs("2025-04-13", 9, 0, p_191dot0, 3), Obs("2025-04-12", 9, 0, p_300, 12),
      Obs("2025-04-12", 10, 0, p_077, 8)>>

ParquetFiles ==
    {[state |-> "missing", rows |-> << >>],
     [state |-> "unreadable", rows |-> << >>],
     [state |-> "ok", rows |-> ParquetRows]}

GeoFiles ==
    {[state |-> "missing", features |-> << >>],
     [state |-> "ok", features |-> <<f_Smith, f_Brown>>],
     [state |-> "ok", features |-> <<f_Gilbert, f_Annex, f_Library>>],
     [state |-> "ok", features |-> <<f_Brown>>]}

Dates == {"2025-04-12", "2025-04-13"}

Hours == {h_9, h_09, h_9dot5, h_sp9, h_abc, q_empty, h_nan, h_inf, h_minf}

Minutes == {m_0, m_00dot0, m_x}

(***************************************************************************)
(* State machine.                                                          *)
(***************************************************************************)
NoRequest == [op |-> "none", q |-> << >>, date |-> "", hour |-> << >>, minute |-> << >>]

NoResult == [type |-> "", rows |-> << >>]

NoResponse == Http(0, "", << >>)

\* lifespan up to its yield
Startup(parquet, geo) ==
    /\ phase = "down"
    /\ starts < MaxStartups
    /\ db_data' = CASE parquet.state = "ok" -> Loaded(load_parquet(parquet.rows))
                    [] parquet.state = "missing" -> NotLoaded
                    [] OTHER -> db_data
    /\ IF geo.state = "ok"
       THEN /\ id_bridge' = build_bridge(id_bridge, geo.features)
            /\ db_campus' = Loaded(geo.features)
       ELSE UNCHANGED <<id_bridge, db_campus>>
    /\ phase' = "serving"
    /\ starts' = starts + 1
    /\ req' = NoRequest
    /\ match' = NoResult
    /\ resp' = NoResponse

\* lifespan after its yield
Shutdown ==
    /\ phase = "serving"
    /\ db_data' = NotLoaded
    /\ db_campus' = NotLoaded
    /\ phase' = "down"
    /\ req' = NoRequest
    /\ match' = NoResult
    /\ resp' = NoResponse
    /\ UNCHANGED <<id_bridge, starts>>

\* GET /occupancy
GetOccupancy(date, hour, minute) ==
    /\ phase = "serving"
    /\ req = NoRequest
    /\ req' = [op |-> "occupancy", q |-> << >>, date |-> date, hour |-> hour,
               minute |-> minute]
    /\ resp' = get_occupancy(date, hour, minute, db_data, id_bridge)
    /\ match' = NoResult
    /\ UNCHANGED <<db_campus, db_data, id_bridge, phase, starts>>

\* GET /search
search_building(q) ==
    /\ phase = "serving"
    /\ req = NoRequest
    /\ req' = [op |-> "search", q |-> q, date |-> "", hour |-> << >>,
               minute |-> << >>]
    /\ IF db_campus.loaded
       THEN \E result \in find_building_match(q, db_campus.rows) :
                /\ match' = result
                /\ resp' = SearchResponse(result, db_campus.rows)
       ELSE /\ match' = NoResult
            /\ resp' = Http(500, "Data not loaded", << >>)
    /\ UNCHANGED <<db_campus, db_data, id_bridge, phase, starts>>

\* the response has gone out; the next request can be taken
Reply ==
    /\ req # NoRequest
    /\ req' = NoRequest
    /\ match' = NoResult
    /\ resp' = NoResponse
    /\ UNCHANGED <<db_campus, db_data, id_bridge, phase, starts>>

\* the search service: a campus already loaded, queries served one at a time
Init ==
    /\ \E df \in Dataframes :
          /\ db_campus = Loaded(df)
          /\ id_bridge = build_bridge(EmptyBridge, df)
    /\ db_data = NotLoaded
    /\ phase = "serving"
    /\ starts = 1
    /\ req = NoRequest
    /\ match = NoResult
    /\ resp = NoResponse

Next ==
    \/ \E q \in Queries : search_building(q)
    \/ Reply

Spec == Init /\ [][Next]_vars

\* the process from import on: startups, the occupancy endpoint, shutdowns
InitService ==
    /\ db_campus = NotLoaded
    /\ db_data = NotLoaded
    /\ id_bridge = EmptyBridge
    /\ phase = "down"
    /\ starts = 0
    /\ req = NoRequest
    /\ match = NoResult
    /\ resp = NoResponse

NextService ==
    \/ \E parquet \in ParquetFiles, geo \in GeoFiles : Startup(parquet, geo)
    \/ Shutdown
    \/ \E date \in Dates, hour \in Hours, minute \in Minutes :
           GetOccupancy(date, hour, minute)
    \/ Reply

SpecService == InitService /\ [][NextService]_vars

(***************************************************************************)
(* Properties.  In a state with req.op = "search", match and resp are what *)
(* search_building produced for req.q on db_campus.rows; with              *)
(* req.op = "occupancy", resp is what get_occupancy produced for req on    *)
(* db_data and id_bridge.                                                  *)
(***************************************************************************)
Searched == req.op = "search"

Rows == db_campus.rows

NameOf(i) == Rows[i][NAME_COL]

CodeOf(i) == Rows[i][CODE_COL]

\* the query as the tiers see it: trimmed, lowercased
Normalized(q) == str_lower(str_strip(q))

\* the scores of the rows for the query of the state
RECURSIVE ScoresUpTo(_)
ScoresUpTo(n) ==
    IF n = 0 THEN << >>
    ELSE Append(ScoresUpTo(n - 1),
                jaro_winkler_similarity(Normalized(req.q), str_lower(NameOf(n))))

Scores == ScoresUpTo(Len(Rows))

\* tier 0 answers: the query is an alias and some name contains its target
AliasAnswers ==
    /\ Normalized(req.q) \in DOMAIN CUSTOM_ALIASES
    /\ \E i \in 1..Len(Rows) :
           str_in(str_lower(CUSTOM_ALIASES[Normalized(req.q)]), str_lower(NameOf(i)))

NumericQuery == str_isdigit(str_strip(req.q))

NameEquals == {i \in 1..Len(Rows) : str_lower(NameOf(i)) = Normalized(req.q)}

NameContains == {i \in 1..Len(Rows) : str_in(Normalized(req.q), str_lower(NameOf(i)))}

ReachesSimilarityTier ==
    /\ Searched
    /\ ~AliasAnswers
    /\ ~NumericQuery
    /\ NameEquals = {}
    /\ NameContains = {}

\* C1 (as claimed): for every record r and every letter-casing of r's name,
\* the search returns "exact" with a record whose name equals r's name
\* case-insensitively, whatever the record set.
C1_EveryNameResolves ==
    Searched =>
        \A i \in 1..Len(Rows) :
            str_lower(req.q) = str_lower(NameOf(i)) =>
                /\ match.type = "exact"
                /\ str_lower(NameOf(match.rows[1])) = str_lower(NameOf(i))

\* r's name has no blank at either end, is not all digits, and is not an
\* alias whose target some record's name contains
PlainName(i) ==
    /\ str_strip(NameOf(i)) = NameOf(i)
    /\ ~str_isdigit(NameOf(i))
    /\ ~(/\ str_lower(NameOf(i)) \in DOMAIN CUSTOM_ALIASES
         /\ \E j \in 1..Len(Rows) :
                str_in(str_lower(CUSTOM_ALIASES[str_lower(NameOf(i))]),
                       str_lower(NameOf(j))))

\* C1 (amended): for every record r whose name has no leading or trailing
\* whitespace, is not made of digits only and is not an alias key whose
\* target occurs in a record name, every letter-casing of r's name returns
\* "exact" with a record whose name equals r's name case-insensitively.
C1_PlainNameResolves ==
    Searched =>
        \A i \in 1..Len(Rows) :
            (PlainName(i) /\ str_lower(req.q) = str_lower(NameOf(i))) =>
                /\ match.type = "exact"
                /\ str_lower(NameOf(match.rows[1])) = str_lower(NameOf(i))

\* an upper-cased name was searched and found, next to a longer name holding it
C1_Witness ==
    /\ Searched
    /\ \E i, j \in 1..Len(Rows) :
           /\ PlainName(i)
           /\ req.q = str_upper(NameOf(i))
           /\ req.q # NameOf(i)
           /\ i # j
           /\ str_in(str_lower(NameOf(i)), str_lower(NameOf(j)))
           /\ match = Exact(i)

PaddedTo3(t) ==
    CASE Len(t) = 1 -> <<"0", "0">> \o t
      [] Len(t) = 2 -> <<"0">> \o t
      [] OTHER -> t

RECURSIVE str_of_nat(_)
str_of_nat(n) ==
    IF n < 10 THEN <<DigitChars[n + 1]>>
    ELSE str_of_nat(n \div 10) \o <<DigitChars[(n % 10) + 1]>>

\* C3 (as claimed): for every record r whose display code is a numeral of at
\* most 3 digits (codes being unique), the query str(int(r's code)) returns
\* "exact" with r.
C3_UnpaddedNumeralFindsRecord ==
    Searched =>
        \A i \in 1..Len(Rows) :
            (/\ str_isdigit(CodeOf(i))
             /\ Len(CodeOf(i)) <= 3
             /\ \A j \in 1..Len(Rows) : CodeOf(j) = CodeOf(i) => j = i
             /\ req.q = str_of_nat(int_of(CodeOf(i)))) =>
                match = Exact(i)

\* row i scores at least as much as every row
IsBest(sc, i) == \A j \in 1..Len(sc) : Geq(sc[i], sc[j])

LibaryCase ==
    /\ Searched
    /\ req.q = q_Libary
    /\ \E i \in 1..Len(Rows) : NameOf(i) = n_GilbertMemorialLibrary
    /\ NameContains = {}

\* C8 (as claimed): for the query "Libary" against a record set with
\* "Gilbert Memorial Library" and no name containing "libary", the
\* similarity to that name is at least 0.90 and the search returns "exact"
\* with that record.
C8_LibaryFindsTheLibrary ==
    LibaryCase =>
        LET sc == Scores IN
        \A i \in 1..Len(Rows) :
            NameOf(i) = n_GilbertMemorialLibrary =>
                /\ Geq(sc[i], <<90, 100>>)
                /\ match = Exact(i)

\* C8 (amended): for that query and record set the similarity to "Gilbert
\* Memorial Library" is 197/360 (about 0.547), below 0.60; the search never
\* returns that record as "exact", and returns "none" when no other record
\* scores 0.60 or more.
C8_LibaryScoresBelowSuggest ==
    LibaryCase =>
        LET sc == Scores IN
        \A i \in 1..Len(Rows) :
            NameOf(i) = n_GilbertMemorialLibrary =>
                /\ RatEq(sc[i], <<197, 360>>)
                /\ match # Exact(i)
                /\ (\A j \in 1..Len(Rows) : Gt(<<60, 100>>, sc[j]))
                       => match = NoMatch

\* "Libary" against a set where the library is the best candidate: 404
C8_Witness ==
    /\ LibaryCase
    /\ \E i \in 1..Len(Rows) :
           NameOf(i) = n_GilbertMemorialLibrary /\ IsBest(Scores, i)
    /\ Len(Rows) > 1
    /\ match = NoMatch
    /\ resp.status = 404

\* C9: a non-numeric query that no alias answers and that equals no name
\* but is contained in at least one returns "exact" with a record whose name
\* contains it and is of minimal length among those; among equally short
\* ones the earliest in record order.  The similarity tier is not consulted.
C9_ShortestContainingName ==
    (Searched /\ ~AliasAnswers /\ ~NumericQuery /\ NameEquals = {}
     /\ NameContains # {}) =>
        /\ match.type = "exact"
        /\ match.rows[1] \in NameContains
        /\ \A j \in NameContains :
               /\ Len(NameOf(match.rows[1])) <= Len(NameOf(j))
               /\ Len(NameOf(j)) = Len(NameOf(match.rows[1])) => match.rows[1] <= j

\* two equally short names contain the query; the earlier row is returned
C9_Witness ==
    /\ Searched /\ ~AliasAnswers /\ ~NumericQuery /\ NameEquals = {}
    /\ match.type = "exact"
    /\ \E j \in NameContains :
           /\ j > match.rows[1]
           /\ Len(NameOf(j)) = Len(NameOf(match.rows[1]))
    /\ \E j \in NameContains : Len(NameOf(j)) > Len(NameOf(match.rows[1]))

\* C10 (as claimed): in a "suggestion" every listed record scores
\* 0.60 <= s < 0.90; none below 0.60 is offered.
C10_EverySuggestionInBand ==
    (Searched /\ match.type = "suggestion") =>
        LET sc == Scores IN
        \A k \in 1..Len(match.rows) :
            /\ Geq(sc[match.rows[k]], <<60, 100>>)
            /\ Gt(<<90, 100>>, sc[match.rows[k]])

\* C10 (amended): in a "suggestion" the first record scores
\* 0.60 <= s < 0.90, and every listed record scores below 0.90 and no more
\* than the one before it; the records after the first may score below 0.60.
C10_FirstSuggestionInBand ==
    (Searched /\ match.type = "suggestion") =>
        LET sc == Scores IN
        /\ Len(match.rows) >= 1
        /\ Geq(sc[match.rows[1]], <<60, 100>>)
        /\ \A k \in 1..Len(match.rows) : Gt(<<90, 100>>, sc[match.rows[k]])
        /\ \A k \in 1..(Len(match.rows) - 1) :
               Geq(sc[match.rows[k]], sc[match.rows[k + 1]])

\* three suggestions went out, the last two scoring below 0.60
C10_Witness ==
    /\ Searched
    /\ match.type = "suggestion"
    /\ Len(match.rows) = 3
    /\ Len(resp.data) = 3
    /\ Gt(<<60, 100>>, Scores[match.rows[2]])
    /\ Gt(<<60, 100>>, Scores[match.rows[3]])

Served == req.op = "occupancy" /\ resp.status = 200

\* the rows of the loaded table in the requested time bin
Slice ==
    SelectSeq(db_data.rows, LAMBDA r :
        /\ r.date_str = req.date
        /\ r.hour = int_float(req.hour).value
        /\ r.minute = int_float(req.minute).value)

\* how many pairs observation k gives
Width(k) ==
    IF Slice[k][CODE_COL] \in DOMAIN id_bridge
    THEN Len(id_bridge[Slice[k][CODE_COL]])
    ELSE 1

RECURSIVE PairsBefore(_)
PairsBefore(k) == IF k <= 1 THEN 0 ELSE PairsBefore(k - 1) + Width(k - 1)

\* C5: get_occupancy's result is, observation by observation in input order,
\* one (display code, count) pair per display code of the bridge entry of
\* the observation's sensor code, each with the observation's full count; an
\* observation whose sensor code the bridge lacks gives one pair with the
\* sensor code itself.  Nothing is split, summed, dropped or added.
C5_FanOutPerObservation ==
    Served =>
        /\ Len(resp.data) = PairsBefore(Len(Slice) + 1)
        /\ \A k \in 1..Len(Slice) :
               \A x \in 1..Width(k) :
                   resp.data[PairsBefore(k) + x] =
                       [code |-> IF Slice[k][CODE_COL] \in DOMAIN id_bridge
                                 THEN id_bridge[Slice[k][CODE_COL]][x]
                                 ELSE Slice[k][CODE_COL],
                        count |-> Slice[k].occupancy]

\* "191" bridges to 191N and 191S; its 50 goes to both, and "300", which
\* the bridge lacks, passes through
C5_Witness ==
    /\ Served
    /\ <<"1", "9", "1">> \in DOMAIN id_bridge
    /\ id_bridge[<<"1", "9", "1">>] = <<c_191N, c_191S>>
    /\ resp.data = <<[code |-> c_191N, count |-> 50], [code |-> c_191S, count |-> 50],
                     [code |-> <<"7", "7">>, count |-> 7],
                     [code |-> p_300, count |-> 12]>>

\* C6 (as claimed): whenever requests are served from a loaded building
\* snapshot, the bridge is exactly the one built from that snapshot: no key
\* and no display code of a replaced snapshot, and no display code twice in
\* an entry.
C6_BridgeIsOfTheSnapshot ==
    (phase = "serving" /\ db_campus.loaded) =>
        id_bridge = build_bridge(EmptyBridge, db_campus.rows)

NumericText(s) == py_float(s).kind = "finite"

\* C7 (as claimed): a get_occupancy call whose hour or minute is not a
\* numeric string ("abc", "", "nan", "inf", ...) ends in the 400 "Invalid
\* format" error, whether or not data is loaded.
C7_BadTimeIsInvalidFormat ==
    (req.op = "occupancy" /\ (~NumericText(req.hour) \/ ~NumericText(req.minute))) =>
        resp = Http(400, "Invalid format", << >>)

====
